---- MODULE Spec2Model ----
(***************************************************************************)
(* Model of cle.Ld (src/cle/cle.py): the loader that loads a main binary,  *)
(* walks its shared-library dependencies, rebases every image and then     *)
(* relocates.  A Python string is modelled as a sequence of one-character  *)
(* strings so that strip, basename and the '/' test are computed the way   *)
(* Python computes them.                                                    *)
(***************************************************************************)
EXTENDS Integers, Sequences, FiniteSets, TLC

\* ------------------------------------------------------------------------
\* Bounds of the model
\* ------------------------------------------------------------------------

\* The dependency loop may load without end; loading stops at MaxObjects images.
MaxObjects == 4

\* ------------------------------------------------------------------------
\* Strings
\* ------------------------------------------------------------------------

\* Python None where a string is expected (obj.provides, a failed _resolve_path).
None == <<"None">>

\* Absent custom_base_addr (options.get('custom_base_addr', None)).
NoAddr == -1

\* The characters of '.0123456789'.
StripChars == {".", "0", "1", "2", "3", "4", "5", "6", "7", "8", "9"}

RECURSIVE lstrip(_)
lstrip(s) == IF s # <<>> /\ Head(s) \in StripChars THEN lstrip(Tail(s)) ELSE s

RECURSIVE rstrip(_)
rstrip(s) ==
    IF s # <<>> /\ s[Len(s)] \in StripChars
    THEN rstrip(SubSeq(s, 1, Len(s) - 1))
    ELSE s

\* str.strip('.0123456789'): removes the characters at both ends.
strip(s) == rstrip(lstrip(s))

\* '/' in path
HasSlash(p) == \E i \in 1..Len(p) : p[i] = "/"

LastSlash(p) ==
    LET idx == {i \in 1..Len(p) : p[i] = "/"}
    IN  IF idx = {} THEN 0 ELSE CHOOSE i \in idx : \A j \in idx : j <= i

\* os.path.basename: what follows the last '/'.
basename(p) == SubSeq(p, LastSlash(p) + 1, Len(p))

\* os.path.dirname: what precedes the last '/' (the root stays "/").
dirname(p) ==
    LET k == LastSlash(p)
    IN  IF k = 0 THEN <<>> ELSE IF k = 1 THEN <<"/">> ELSE SubSeq(p, 1, k - 1)

\* os.path.join of a directory and a name.
join(d, n) ==
    IF n # <<>> /\ Head(n) = "/" THEN n
    ELSE IF d = <<>> \/ d[Len(d)] = "/" THEN d \o n
    ELSE d \o <<"/">> \o n

\* The working directory of the process.
Cwd == <<"/", "w">>

\* os.path.realpath: an absolute path stays (the modelled file system has no
\* symbolic links), a leading "./" is replaced by the working directory, any
\* other relative path is joined to the working directory.
realpath(p) ==
    IF p # <<>> /\ Head(p) = "/" THEN p
    ELSE IF Len(p) >= 2 /\ p[1] = "." /\ p[2] = "/" THEN Cwd \o SubSeq(p, 2, Len(p))
    ELSE join(Cwd, p)

\* ------------------------------------------------------------------------
\* The file system and the dependency names used in it
\* ------------------------------------------------------------------------

n_6c == <<"6", "c">>
n_a  == <<"a">>
n_b  == <<"b">>
n_c  == <<"c">>
n_c0 == <<"c", ".", "0">>
n_c6 == <<"c", ".", "6">>
n_d  == <<"d">>
n_e  == <<"e">>
n_m  == <<"m">>
n_n  == <<"n">>
n_p  == <<"p">>
n_s  == <<"s">>
n_t  == <<"t">>

CustomDir  == <<"/", "c">>
MainDir    == <<"/", "m">>
ArchLibDir == <<"/", "l">>

\* The path the caller gives for the main binary.
MainPath == join(MainDir, n_p)

\* The library files on disk, in the order a directory listing yields them.
\*   a <-> b depend on each other, a also on itself;
\*   d provides the soname e and is larger than two granules, s provides t
\*   and depends on itself; n provides no soname and depends on d; /c/a is
\*   built for another architecture.
LibFiles == <<
    [path |-> join(CustomDir, n_a), arch |-> "arm", provides |-> n_a,
     deps |-> <<>>, min |-> 0, max |-> 1, exports |-> {"f"}, imports |-> {}],
    [path |-> join(CustomDir, n_c6), arch |-> "x86", provides |-> n_c6,
     deps |-> <<>>, min |-> 0, max |-> 3, exports |-> {"h"}, imports |-> {}],
    [path |-> join(ArchLibDir, n_a), arch |-> "x86", provides |-> n_a,
     deps |-> <<n_b, n_a>>, min |-> 1, max |-> 2, exports |-> {"f"}, imports |-> {"g"}],
    [path |-> join(ArchLibDir, n_b), arch |-> "x86", provides |-> n_b,
     deps |-> <<n_a, n_d>>, min |-> 0, max |-> 5, exports |-> {"f", "g"}, imports |-> {}],
    [path |-> join(ArchLibDir, n_c0), arch |-> "x86", provides |-> n_c0,
     deps |-> <<>>, min |-> 0, max |-> 1, exports |-> {"g"}, imports |-> {"f"}],
    [path |-> join(ArchLibDir, n_d), arch |-> "x86", provides |-> n_e,
     deps |-> <<>>, min |-> 0, max |-> 8, exports |-> {"g"}, imports |-> {}],
    [path |-> join(ArchLibDir, n_s), arch |-> "x86", provides |-> n_t,
     deps |-> <<n_s>>, min |-> 0, max |-> 0, exports |-> {}, imports |-> {}],
    [path |-> join(ArchLibDir, n_n), arch |-> "x86", provides |-> None,
     deps |-> <<n_d>>, min |-> 0, max |-> 2, exports |-> {}, imports |-> {"h"}]
>>

\* ------------------------------------------------------------------------
\* State
\* ------------------------------------------------------------------------

VARIABLES
    args,               \* the arguments of Ld(...) as the caller first passes them
    force_load_libs,    \* the caller's list object passed as force_load_libs
    unsatisfied_deps,   \* self._unsatisfied_deps
    satisfied_deps,     \* self._satisfied_deps
    shared_objects,     \* self.shared_objects: provides -> index in all_objects
    all_objects,        \* self.all_objects
    requested_objects,  \* self.requested_objects
    memory,             \* self.memory: the backers, (start, index in all_objects)
    queued_by,          \* for each queued name, the image that queued it (0: the caller)
    pc,                 \* where __init__ is: "main", "deps", "reloc", "done", "failed"
    reloc_i,            \* the index _perform_reloc's loop is at
    error,              \* the exception that ended __init__: <<kind, name>>
    run,                \* 1 for the first construction, 2 for the second
    first               \* what the first construction left behind, the caller's
                        \* list included

vars == <<args, force_load_libs, unsatisfied_deps, satisfied_deps, shared_objects,
          all_objects, requested_objects, memory, queued_by, pc, reloc_i, error,
          run, first>>

NoError == <<"none", None>>

\* ------------------------------------------------------------------------
\* The inputs a construction is given
\* ------------------------------------------------------------------------

DefaultOpts == [backend |-> "elf", custom_base_addr |-> NoAddr]

\* main_opts together with lib_opts (a dictionary from library basename to
\* options, as the set of its items).
OptsChoices ==
    { [main |-> DefaultOpts, lib |-> {}],
      [main |-> [backend |-> "elf", custom_base_addr |-> 3], lib |-> {}],
      [main |-> [backend |-> "ida", custom_base_addr |-> NoAddr], lib |-> {}],
      [main |-> DefaultOpts,
       lib |-> {[name |-> n_a, opts |-> [backend |-> "elf", custom_base_addr |-> 1]]}],
      [main |-> DefaultOpts,
       lib |-> {[name |-> n_b, opts |-> [backend |-> "elf", custom_base_addr |-> 20]]}],
      [main |-> [backend |-> "elf", custom_base_addr |-> 3],
       lib |-> {[name |-> n_a, opts |-> [backend |-> "elf", custom_base_addr |-> 0]]}],
      [main |-> DefaultOpts,
       lib |-> {[name |-> n_c0, opts |-> [backend |-> "ida", custom_base_addr |-> NoAddr]]}] }

MainDepsChoices ==
    { <<>>, <<n_a>>, <<n_s>>, <<n_n>>, <<n_d, n_n>>, <<n_m, n_a>>,
      <<n_c6, n_c0, n_6c>>, <<join(ArchLibDir, n_a), n_a>>, <<join(CustomDir, n_a)>> }

\* force_load_libs: None, or a list.
ForceLoadChoices == { None, <<n_c6>>, <<n_m, n_a>> }

SkipLibsChoices == { {}, {n_a, n_c0} }

CustomLdPathChoices == { <<>>, <<CustomDir>> }

Granularities == {4}

ArgsChoices ==
    { [ auto_load_libs |-> al,
        force_given |-> fl # None,
        skip_libs |-> sk,
        main_opts |-> o.main,
        lib_opts |-> o.lib,
        custom_ld_path |-> ld,
        ignore_import_version_numbers |-> fz,
        rebase_granularity |-> g,
        except_missing_libs |-> ex,
        main_deps |-> md,
        force_load_libs |-> IF fl = None THEN <<>> ELSE fl ] :
      al \in BOOLEAN, fl \in ForceLoadChoices, sk \in SkipLibsChoices,
      o \in OptsChoices, ld \in CustomLdPathChoices, fz \in BOOLEAN,
      g \in Granularities, ex \in BOOLEAN, md \in MainDepsChoices }

\* ------------------------------------------------------------------------
\* Files and backends
\* ------------------------------------------------------------------------

\* The main binary on disk; the dependencies it declares are an input of the
\* construction (args.main_deps), the rest of it is fixed.
MainFile ==
    [path |-> realpath(MainPath), arch |-> "x86", provides |-> None,
     deps |-> <<>>, min |-> 0, max |-> 4,
     exports |-> {"h"}, imports |-> {"f", "g"}]

AllFiles == <<MainFile>> \o LibFiles

FileExists(p) == \E i \in 1..Len(AllFiles) : AllFiles[i].path = realpath(p)

FileAt(p) == AllFiles[CHOOSE i \in 1..Len(AllFiles) : AllFiles[i].path = realpath(p)]

\* archinfo.arch_from_binary: the architecture of the file, ArchError when
\* the file cannot be read as a binary.
arch_from_binary(p) == IF FileExists(p) THEN FileAt(p).arch ELSE "ArchError"

\* os.listdir: the names in a directory, in the order of the file system.
listdir(d) ==
    LET inDir == SelectSeq(AllFiles, LAMBDA f : dirname(f.path) = realpath(d))
    IN  [i \in 1..Len(inDir) |-> basename(inDir[i].path)]

\* main_bin.arch.library_search_path()
library_search_path == <<ArchLibDir>>

\* The value of rebase_addr of a parsed image that has not been rebased.  The
\* backends set it; with 0, a first library of size 0x4000 behind a main image
\* at 0 is placed at the granularity, as the loader's documented scenario has
\* it.  add_object appends the image to all_objects before it asks for a safe
\* address, so max_addr reads this value for the image being added.
UnsetRebaseAddr == 0

\* The value of tls_module_id before _perform_reloc assigns it.
NoTls == -1

\* load_object: the object a backend builds from the file at path.  by is the
\* image whose dependency list asked for it (0: the caller).
load_object(path, options, by) ==
    LET f == FileAt(path)
    IN  [binary |-> path, backend |-> options.backend, arch |-> f.arch,
         provides |-> f.provides,
         deps |-> IF realpath(path) = MainFile.path THEN args.main_deps ELSE f.deps,
         min |-> f.min, max |-> f.max, exports |-> f.exports, imports |-> f.imports,
         rebase_addr |-> UnsetRebaseAddr, tls_module_id |-> NoTls,
         resolved |-> {}, by |-> by]

\* obj.get_max_addr(), obj.get_min_addr()
get_max_addr(obj) == obj.max
get_min_addr(obj) == obj.min

\* ------------------------------------------------------------------------
\* Ld's helpers
\* ------------------------------------------------------------------------

Range(q) == {q[i] : i \in 1..Len(q)}

Max(S) == CHOOSE x \in S : \A y \in S : y <= x
Min(S) == CHOOSE x \in S : \A y \in S : x <= y

\* Ld.max_addr over a list of objects.
max_addr(objs) == Max({get_max_addr(objs[i]) + objs[i].rebase_addr : i \in 1..Len(objs)})

\* Ld.min_addr over a list of objects.
min_addr(objs) == Min({get_min_addr(objs[i]) + objs[i].rebase_addr : i \in 1..Len(objs)})

\* addr in obj.memory: the image's memory holds the local addresses from its
\* minimum to its maximum.
InMemory(obj, addr) == addr \in get_min_addr(obj)..get_max_addr(obj)

\* A lookup that forgets to take the base off the address.
addr_belongs_to_object_norebase(objs, addr) ==
    LET hit == {i \in 1..Len(objs) : InMemory(objs[i], addr)}
    IN  IF hit = {} THEN 0 ELSE Min(hit)

\* Ld.addr_belongs_to_object: the index of the first image in load order whose
\* memory holds addr - rebase_addr, 0 for Python's None.
addr_belongs_to_object(objs, addr) ==
    LET hit == {i \in 1..Len(objs) : InMemory(objs[i], addr - objs[i].rebase_addr)}
    IN  IF hit = {} THEN 0 ELSE Min(hit)

\* A rebase address that is not aligned: one past the maximum.
get_safe_rebase_addr_unaligned(objs) == max_addr(objs) + 1

\* Ld._get_safe_rebase_addr
_get_safe_rebase_addr(objs) ==
    LET granularity == args.rebase_granularity
    IN  max_addr(objs) + (granularity - (max_addr(objs) % granularity))

\* A check that accepts every file that can be read as a binary.
_check_lib_any_arch(sopath) == arch_from_binary(sopath) # "ArchError"

\* Ld._check_lib
_check_lib(sopath) == arch_from_binary(sopath) = MainFile.arch

\* The directory entries that match a name with the version numbers stripped.
FuzzyHits(libdir, path) ==
    SelectSeq(listdir(libdir),
              LAMBDA libname : /\ strip(libname) = strip(path)
                               /\ _check_lib(join(libdir, libname)))

\* One round of the loop over dirs in _resolve_path.
ResolveInDir(libdir, path) ==
    IF _check_lib(join(libdir, path)) THEN realpath(join(libdir, path))
    ELSE IF args.ignore_import_version_numbers /\ FuzzyHits(libdir, path) # <<>>
         THEN realpath(join(libdir, Head(FuzzyHits(libdir, path))))
         ELSE None

RECURSIVE ResolveInDirs(_, _)
ResolveInDirs(dirs, path) ==
    IF dirs = <<>> THEN None
    ELSE LET r == ResolveInDir(Head(dirs), path)
         IN  IF r # None THEN r ELSE ResolveInDirs(Tail(dirs), path)

\* A search that starts with the architecture's default paths.
SearchDirs_arch_first ==
    library_search_path \o args.custom_ld_path \o <<<<".">>, dirname(realpath(MainPath))>>

SearchDirs ==
    args.custom_ld_path \o <<<<".">>, dirname(realpath(MainPath))>> \o library_search_path

\* Ld._resolve_path
_resolve_path(path) ==
    IF HasSlash(path)
    THEN IF _check_lib(path) THEN path ELSE None
    ELSE ResolveInDirs(SearchDirs, path)

\* lib_opts.get(libname, {}), with the defaults the later options.get calls use.
LibOptions(libname) ==
    IF \E it \in args.lib_opts : it.name = libname
    THEN (CHOOSE it \in args.lib_opts : it.name = libname).opts
    ELSE DefaultOpts

\* The two tests of _load_dependencies that skip a name.
Satisfied(dep) ==
    \/ basename(dep) \in satisfied_deps
    \/ args.ignore_import_version_numbers /\ strip(dep) \in satisfied_deps

\* What add_object adds to _satisfied_deps.
Provided(obj) ==
    IF obj.provides = None THEN {}
    ELSE {obj.provides} \cup
         (IF args.ignore_import_version_numbers THEN {strip(obj.provides)} ELSE {})

\* ------------------------------------------------------------------------
\* The memory map
\* ------------------------------------------------------------------------

\* The range [start, start + size) of a backer, size being the extent of the
\* image's local memory.
BackerRange(start, obj) == start .. (start + get_max_addr(obj))

\* Clemory.add_backer fails when the new range intersects a backer's.
Overlaps(mem, objs, start, obj) ==
    \E i \in 1..Len(mem) :
        BackerRange(mem[i].start, objs[mem[i].obj]) \cap BackerRange(start, obj) # {}

\* An add_object that takes the early return of line 169 for every image.
AddsBacker_never(obj) == FALSE

\* add_object registers the image with the memory map, images of the IDA
\* backend excepted.
AddsBacker(obj) == obj.backend # "ida"

\* IdaBin.rebase stores the address on the image.
IdaRebase(objs, idx, base_addr) == [objs EXCEPT ![idx].rebase_addr = base_addr]

\* Clemory.update_backer replaces the backer registered at exactly start.
update_backer(mem, start, idx) ==
    [k \in 1..Len(mem) |->
        IF mem[k].start = start THEN [start |-> start, obj |-> idx] ELSE mem[k]]

HasBacker(mem, start) == \E k \in 1..Len(mem) : mem[k].start = start

\* Ld.ida_sync_mem from object i on: update_backer for every IDA image, in
\* load order; the first image with no backer at its address ends it.
RECURSIVE ida_sync_mem(_, _, _)
ida_sync_mem(objs, mem, i) ==
    IF i > Len(objs) THEN [memory |-> mem, error |-> NoError]
    ELSE IF objs[i].backend # "ida" THEN ida_sync_mem(objs, mem, i + 1)
    ELSE IF ~HasBacker(mem, objs[i].rebase_addr)
         THEN [memory |-> mem, error |-> <<"NotFound", basename(objs[i].binary)>>]
         ELSE ida_sync_mem(objs, update_backer(mem, objs[i].rebase_addr, i), i + 1)

\* ------------------------------------------------------------------------
\* Ld.add_object
\* ------------------------------------------------------------------------

\* The queue after add_object when the new dependencies are put in front.
Enqueue_front(queue, deps) == deps \o queue

\* self._unsatisfied_deps += obj.deps
Enqueue(queue, deps) == queue \o deps

\* An update of requested_objects that is done only under auto_load_libs.
Requested_if_auto(requested, deps) ==
    IF args.auto_load_libs THEN requested \cup Range(deps) ELSE requested

\* self.requested_objects.update(obj.deps)
Requested(requested, deps) == requested \cup Range(deps)

\* The effect of add_object(obj, base_addr) on Ld's fields, queue and queuers
\* being the queue and its ghost as add_object finds them.
add_object(obj, base_addr, queue, queuers) ==
    LET idx   == Len(all_objects) + 1
        deps  == obj.deps
        tags  == [i \in 1..Len(deps) |-> idx]
        objs1 == Append(all_objects, obj)
        base  == IF base_addr = NoAddr THEN _get_safe_rebase_addr(objs1) ELSE base_addr
        common ==
            [unsatisfied_deps  |-> IF args.auto_load_libs THEN Enqueue(queue, deps)
                                                           ELSE queue,
             queued_by         |-> IF args.auto_load_libs THEN Enqueue(queuers, tags)
                                                           ELSE queuers,
             requested_objects |-> Requested(requested_objects, deps),
             satisfied_deps    |-> satisfied_deps \cup Provided(obj)]
    IN  IF ~AddsBacker(obj)
        THEN common @@
             [all_objects |-> IdaRebase(objs1, idx, base), memory |-> memory,
              error |-> NoError]
        ELSE IF Overlaps(memory, objs1, base, obj)
        THEN common @@
             [all_objects |-> objs1, memory |-> memory,
              error |-> <<"Overlap", basename(obj.binary)>>]
        ELSE common @@
             [all_objects |-> [objs1 EXCEPT ![idx].rebase_addr = base],
              memory |-> Append(memory, [start |-> base, obj |-> idx]),
              error |-> NoError]

\* The caller's list is the very list Ld pops from and appends to, when one
\* was passed (line 79 stores it without copying).
CallerList(queue) == IF args.force_given THEN queue ELSE force_load_libs

\* self.shared_objects[name] = obj
PutShared(shared, name, idx) == {e \in shared : e[1] # name} \cup {<<name, idx>>}

\* ------------------------------------------------------------------------
\* Ld.__init__, step by step
\* ------------------------------------------------------------------------

NoFirst == [pc |-> "none", all_objects |-> <<>>, error |-> NoError, list |-> <<>>]

\* A queue that starts empty whatever the caller passed.
SeedQueue_empty(list) == <<>>

\* Line 79: the queue starts as the list passed as force_load_libs.
SeedQueue(list) == list

\* Lines 77-92: the fields as __init__ sets them before loading anything.
Fields(list) ==
    /\ unsatisfied_deps = SeedQueue(list)
    /\ queued_by = [i \in 1..Len(SeedQueue(list)) |-> 0]
    /\ satisfied_deps = args.skip_libs
    /\ shared_objects = {}
    /\ all_objects = <<>>
    /\ requested_objects = {}
    /\ memory = <<>>
    /\ pc = "main"
    /\ reloc_i = 0
    /\ error = NoError

Init ==
    /\ args \in ArgsChoices
    /\ force_load_libs = args.force_load_libs
    /\ Fields(force_load_libs)
    /\ run = 1
    /\ first = NoFirst

\* Ld._load_main_binary
LoadMain ==
    /\ pc = "main"
    /\ LET obj == load_object(realpath(MainPath), args.main_opts, 0)
           base_addr == IF args.main_opts.custom_base_addr = NoAddr
                        THEN 0 ELSE args.main_opts.custom_base_addr
           r == add_object(obj, base_addr, unsatisfied_deps, queued_by)
       IN  /\ unsatisfied_deps' = r.unsatisfied_deps
           /\ queued_by' = r.queued_by
           /\ force_load_libs' = CallerList(r.unsatisfied_deps)
           /\ requested_objects' = r.requested_objects
           /\ satisfied_deps' = r.satisfied_deps
           /\ all_objects' = r.all_objects
           /\ memory' = r.memory
           /\ error' = r.error
           /\ pc' = IF r.error = NoError THEN "deps" ELSE "failed"
    /\ UNCHANGED <<args, shared_objects, reloc_i, run, first>>

\* A loop that stops with one name still queued.
QueueEmpty_early(queue) == Len(queue) <= 1

\* Line 110: the loop goes on while len(self._unsatisfied_deps) > 0.
QueueEmpty(queue) == Len(queue) = 0

\* _load_dependencies, an iteration that skips a satisfied name.
DepSkip ==
    /\ pc = "deps"
    /\ ~QueueEmpty(unsatisfied_deps)
    /\ Satisfied(Head(unsatisfied_deps))
    /\ unsatisfied_deps' = Tail(unsatisfied_deps)
    /\ queued_by' = Tail(queued_by)
    /\ force_load_libs' = CallerList(Tail(unsatisfied_deps))
    /\ UNCHANGED <<args, satisfied_deps, shared_objects, all_objects,
                   requested_objects, memory, pc, reloc_i, error, run, first>>

\* A loop that drops every name it cannot resolve.
RaisesOnMissing_never == FALSE

\* A loop that raises for every name it cannot resolve.
RaisesOnMissing_always == TRUE

\* Whether a name that cannot be resolved ends the construction.
RaisesOnMissing == args.except_missing_libs

\* _load_dependencies, an iteration whose name resolves to no file.
DepMissing ==
    /\ pc = "deps"
    /\ ~QueueEmpty(unsatisfied_deps)
    /\ ~Satisfied(Head(unsatisfied_deps))
    /\ _resolve_path(Head(unsatisfied_deps)) = None
    /\ unsatisfied_deps' = Tail(unsatisfied_deps)
    /\ queued_by' = Tail(queued_by)
    /\ force_load_libs' = CallerList(Tail(unsatisfied_deps))
    /\ IF RaisesOnMissing
       THEN /\ pc' = "failed"
            /\ error' = <<"CLException", Head(unsatisfied_deps)>>
       ELSE UNCHANGED <<pc, error>>
    /\ UNCHANGED <<args, satisfied_deps, shared_objects, all_objects,
                   requested_objects, memory, reloc_i, run, first>>

\* _load_dependencies, an iteration that loads the file the name resolves to.
DepLoad ==
    /\ pc = "deps"
    /\ ~QueueEmpty(unsatisfied_deps)
    /\ ~Satisfied(Head(unsatisfied_deps))
    /\ _resolve_path(Head(unsatisfied_deps)) # None
    /\ Len(all_objects) < MaxObjects
    /\ LET path    == _resolve_path(Head(unsatisfied_deps))
           libname == basename(path)
           options == LibOptions(libname)
           obj     == load_object(path, options, Head(queued_by))
           r       == add_object(obj, options.custom_base_addr,
                                 Tail(unsatisfied_deps), Tail(queued_by))
       IN  /\ unsatisfied_deps' = r.unsatisfied_deps
           /\ queued_by' = r.queued_by
           /\ force_load_libs' = CallerList(r.unsatisfied_deps)
           /\ requested_objects' = r.requested_objects
           /\ satisfied_deps' = r.satisfied_deps
           /\ all_objects' = r.all_objects
           /\ memory' = r.memory
           /\ error' = r.error
           /\ IF r.error = NoError
              THEN /\ shared_objects' =
                        PutShared(shared_objects, obj.provides, Len(r.all_objects))
                   /\ pc' = pc
              ELSE /\ shared_objects' = shared_objects
                   /\ pc' = "failed"
    /\ UNCHANGED <<args, reloc_i, run, first>>

\* _load_dependencies returns when the queue is empty; _perform_reloc starts.
DepsDone ==
    /\ pc = "deps"
    /\ QueueEmpty(unsatisfied_deps)
    /\ pc' = "reloc"
    /\ reloc_i' = 1
    /\ UNCHANGED <<args, force_load_libs, unsatisfied_deps, satisfied_deps,
                   shared_objects, all_objects, requested_objects, memory,
                   queued_by, error, run, first>>

\* ------------------------------------------------------------------------
\* Ld._perform_reloc
\* ------------------------------------------------------------------------

\* reloc.relocate(all_objects): the first image in load order that exports the
\* symbol, 0 when none does.
FirstExporter(objs, sym) ==
    LET who == {i \in 1..Len(objs) : sym \in objs[i].exports}
    IN  IF who = {} THEN 0 ELSE Min(who)

\* _resolve_imports_ida once _all_so_exports has returned: an import is
\* resolved by the image's own export, by nothing otherwise (so_exports is
\* empty whenever _all_so_exports returns).
OwnExporter(objs, i, sym) == IF sym \in objs[i].exports THEN i ELSE 0

\* A numbering of the modules that starts at one.
TlsIdOneBased(i) == i

\* enumerate(self.all_objects) counts from zero; the model's sequences from one.
TlsId(i) == i - 1

\* One iteration of the loop of _perform_reloc.  _all_so_exports iterates the
\* keys of shared_objects and reads .exports of each key, a string: it raises
\* as soon as the dictionary holds a key.
RelocStep ==
    /\ pc = "reloc"
    /\ reloc_i <= Len(all_objects)
    /\ LET i   == reloc_i
           obj == all_objects[i]
           ida_raises == obj.backend = "ida" /\ shared_objects # {}
           res == IF ida_raises THEN {}
                  ELSE IF obj.backend = "ida"
                  THEN {<<sym, OwnExporter(all_objects, i, sym)>> : sym \in obj.imports}
                  ELSE {<<sym, FirstExporter(all_objects, sym)>> : sym \in obj.imports}
       IN  /\ all_objects' = [all_objects EXCEPT ![i].tls_module_id = TlsId(i),
                                                 ![i].resolved = res]
           /\ IF ida_raises
              THEN /\ pc' = "failed"
                   /\ error' = <<"AttributeError", basename(obj.binary)>>
                   /\ reloc_i' = reloc_i
              ELSE /\ pc' = pc
                   /\ error' = error
                   /\ reloc_i' = reloc_i + 1
    /\ UNCHANGED <<args, force_load_libs, unsatisfied_deps, satisfied_deps,
                   shared_objects, requested_objects, memory, queued_by, run, first>>

\* Lines 97-98: after _perform_reloc, ida_sync_mem when the main binary is
\* IDA-backed; then __init__ returns.
Finish ==
    /\ pc = "reloc"
    /\ reloc_i > Len(all_objects)
    /\ LET r == IF all_objects[1].backend = "ida"
                THEN ida_sync_mem(all_objects, memory, 1)
                ELSE [memory |-> memory, error |-> NoError]
       IN  /\ memory' = r.memory
           /\ error' = r.error
           /\ pc' = IF r.error = NoError THEN "done" ELSE "failed"
    /\ UNCHANGED <<args, force_load_libs, unsatisfied_deps, satisfied_deps,
                   shared_objects, all_objects, requested_objects, queued_by,
                   reloc_i, run, first>>

\* The caller constructs Ld a second time, passing the same objects.
Reconstruct ==
    /\ pc \in {"done", "failed"}
    /\ run = 1
    /\ run' = 2
    /\ first' = [pc |-> pc, all_objects |-> all_objects, error |-> error,
                 list |-> force_load_libs]
    /\ unsatisfied_deps' = SeedQueue(force_load_libs)
    /\ queued_by' = [i \in 1..Len(SeedQueue(force_load_libs)) |-> 0]
    /\ satisfied_deps' = args.skip_libs
    /\ shared_objects' = {}
    /\ all_objects' = <<>>
    /\ requested_objects' = {}
    /\ memory' = <<>>
    /\ pc' = "main"
    /\ reloc_i' = 0
    /\ error' = NoError
    /\ UNCHANGED <<args, force_load_libs>>

Next ==
    \/ LoadMain
    \/ DepSkip
    \/ DepMissing
    \/ DepLoad
    \/ DepsDone
    \/ RelocStep
    \/ Finish
    \/ Reconstruct

Spec == Init /\ [][Next]_vars

\* ------------------------------------------------------------------------
\* Properties
\* ------------------------------------------------------------------------

Images == 1..Len(all_objects)

\* The absolute range an image occupies.
AbsRange(o) == (o.rebase_addr + o.min) .. (o.rebase_addr + o.max)

\* Whether the base of image i came from a custom_base_addr option.
CustomBase(i) ==
    IF i = 1 THEN args.main_opts.custom_base_addr # NoAddr
    ELSE LibOptions(basename(all_objects[i].binary)).custom_base_addr # NoAddr

\* C1: after a successful construction the absolute ranges of any two
\* distinct images are disjoint, whatever the image sizes and whatever custom
\* base addresses the construction accepted.
C1_RangesDisjoint ==
    pc = "done" =>
        \A i \in Images : \A j \in Images :
            i # j => AbsRange(all_objects[i]) \cap AbsRange(all_objects[j]) = {}

\* C1's case: a finished construction of three or more images, one placed at
\* a custom base address and one larger than the granularity.
C1_Witness ==
    /\ pc = "done"
    /\ Len(all_objects) >= 3
    /\ \E i \in Images : i > 1 /\ CustomBase(i)
    /\ \E i \in Images : all_objects[i].max - all_objects[i].min + 1 > args.rebase_granularity

\* C2: every image whose base was not supplied through custom_base_addr has a
\* base that is a multiple of rebase_granularity, also when the maximum
\* address before it was itself a multiple of the granularity.
C2_Aligned ==
    pc \in {"deps", "reloc", "done"} =>
        \A i \in Images :
            ~CustomBase(i) => all_objects[i].rebase_addr % args.rebase_granularity = 0

\* C2's case: the second image got its base from _get_safe_rebase_addr while
\* the maximum address was a multiple of the granularity.
C2_Witness ==
    /\ pc = "done"
    /\ Len(all_objects) >= 2
    /\ ~CustomBase(2)
    /\ (all_objects[1].rebase_addr + all_objects[1].max) % args.rebase_granularity = 0
    /\ all_objects[2].max <= all_objects[1].rebase_addr + all_objects[1].max

\* C3: after construction no two images provide the same soname, also when a
\* file's soname differs from the name it was requested under.
C3_OneImagePerSoname ==
    pc = "done" =>
        \A i \in Images : \A j \in Images :
            (all_objects[i].provides # None
             /\ all_objects[i].provides = all_objects[j].provides) => i = j

\* The dependency names declared by the images of all_objects.
Declared == UNION {Range(all_objects[i].deps) : i \in Images}

\* C4 as stated: after a successful construction every declared dependency
\* name is in the satisfied set, itself or (with fuzzy matching) its stripped
\* alias, or except_missing_libs is false.
C4_DeclaredSatisfied ==
    pc = "done" =>
        \A d \in Declared :
            \/ d \in satisfied_deps
            \/ args.ignore_import_version_numbers /\ strip(d) \in satisfied_deps
            \/ ~args.except_missing_libs

\* C4 amended: after a successful construction with auto_load_libs and
\* except_missing_libs both true, every declared dependency name has its
\* basename in the satisfied set, or (with fuzzy matching) its stripped alias
\* in it, or an image loaded from the file the name resolves to is in
\* all_objects.
C4_DeclaredSatisfiedOrLoaded ==
    (pc = "done" /\ args.auto_load_libs /\ args.except_missing_libs) =>
        \A d \in Declared :
            \/ basename(d) \in satisfied_deps
            \/ args.ignore_import_version_numbers /\ strip(d) \in satisfied_deps
            \/ \E i \in Images : all_objects[i].binary = _resolve_path(d)

\* C4's case: a finished construction with both flags true in which one
\* declared name is in the satisfied set and another is not, its file having
\* been loaded under another soname.
C4_Witness ==
    /\ pc = "done"
    /\ args.auto_load_libs
    /\ args.except_missing_libs
    /\ \E d \in Declared : d \in satisfied_deps
    /\ \E d \in Declared :
        /\ ~Satisfied(d)
        /\ \E i \in Images : all_objects[i].binary = _resolve_path(d)

\* The libraries are in breadth-first order: the main image is first, and a
\* library asked for by an earlier image (the caller's force_load_libs before
\* all) is loaded before a library asked for by a later one; the names still
\* queued were asked for no earlier than the libraries already loaded.
BreadthFirstOrder ==
    /\ all_objects # <<>> => all_objects[1].binary = realpath(MainPath)
    /\ \A i \in Images : \A j \in Images :
           (1 < i /\ i < j) => all_objects[i].by <= all_objects[j].by
    /\ \A k \in 1..Len(queued_by) : \A l \in 1..Len(queued_by) :
           k < l => queued_by[k] <= queued_by[l]
    /\ \A i \in Images : \A k \in 1..Len(queued_by) :
           1 < i => all_objects[i].by <= queued_by[k]

\* What a step of one construction does to the queue: an iteration of the
\* dependency loop removes the head and appends, when it loads an image and
\* auto_load_libs is set, that image's dependencies in declared order; loading
\* the main image appends its dependencies behind the force_load_libs names.
FifoStep ==
    LET added == IF Len(all_objects') > Len(all_objects) /\ args.auto_load_libs
                 THEN all_objects'[Len(all_objects')].deps
                 ELSE <<>>
    IN  /\ (pc = "main" /\ run' = run) =>
               unsatisfied_deps' = unsatisfied_deps \o added
        /\ (pc = "deps" /\ unsatisfied_deps # <<>>) =>
               unsatisfied_deps' = Tail(unsatisfied_deps) \o added
        /\ (pc \in {"reloc", "done", "failed"} /\ run' = run) =>
               unsatisfied_deps' = unsatisfied_deps

\* C5: the unsatisfied queue is FIFO (popped at the head, dependencies
\* appended at the tail in declared order), so all_objects is the main image
\* followed by the libraries in breadth-first discovery order, the names
\* seeded by force_load_libs before main's declared dependencies.
C5_FifoBreadthFirst == []BreadthFirstOrder /\ [][FifoStep]_vars

\* C5's case: a finished construction that loaded a force_load_libs name, then
\* a dependency of main, then a dependency of that library.
C5_Witness ==
    /\ pc = "done"
    /\ Len(all_objects) = 4
    /\ all_objects[2].by = 0
    /\ all_objects[3].by = 1
    /\ all_objects[4].by = 3

\* C6: after construction with n images the tls_module_id values are exactly
\* 0..n-1, pairwise distinct, each image's position in load order, 0 at the
\* main image.
C6_TlsIds ==
    pc = "done" =>
        /\ \A i \in Images : all_objects[i].tls_module_id = i - 1
        /\ {all_objects[i].tls_module_id : i \in Images} = 0..(Len(all_objects) - 1)
        /\ \A i \in Images : \A j \in Images :
               all_objects[i].tls_module_id = all_objects[j].tls_module_id => i = j
        /\ all_objects[1].binary = realpath(MainPath)
        /\ all_objects[1].tls_module_id = 0

\* C6's case: a finished construction of at least three images.
C6_Witness == pc = "done" /\ Len(all_objects) >= 3

\* Every name requested so far resolves to a file.
AllResolvable ==
    \A d \in Range(unsatisfied_deps) \cup requested_objects \cup Range(args.force_load_libs) :
        _resolve_path(d) # None

\* C7: with cyclic dependencies and every requested name resolvable, the
\* dependency loop terminates, the satisfied check stopping a library from
\* being loaded again.  What an iteration does is decided by the queue and the
\* satisfied set alone (the file system and the options do not change), so
\* the loop terminates only if no iteration that loads a library leaves both
\* as it found them: such an iteration repeats forever.
C7_LoopTerminates ==
    [][(pc = "deps" /\ AllResolvable /\ Len(all_objects') > Len(all_objects)) =>
           ~(unsatisfied_deps' = unsatisfied_deps /\ satisfied_deps' = satisfied_deps)]_vars

\* The iteration of the dependency loop that finds the head of the queue
\* neither satisfied nor resolvable.
MissingHead ==
    /\ pc = "deps"
    /\ unsatisfied_deps # <<>>
    /\ ~Satisfied(Head(unsatisfied_deps))
    /\ _resolve_path(Head(unsatisfied_deps)) = None

\* The step C8 is about: construction fails with an error that names the
\* dependency; the images and the names behind it in the queue stay as they
\* were.
MissingRaises ==
    (MissingHead /\ args.except_missing_libs) =>
        /\ pc' = "failed"
        /\ error' = <<"CLException", Head(unsatisfied_deps)>>
        /\ unsatisfied_deps' = Tail(unsatisfied_deps)
        /\ UNCHANGED <<all_objects, shared_objects, satisfied_deps, memory, reloc_i>>

\* A construction that failed for a missing library did no relocation and
\* assigned no tls_module_id.
NoRelocAfterMissing ==
    (pc = "failed" /\ error[1] = "CLException") =>
        /\ reloc_i = 0
        /\ \A i \in Images : /\ all_objects[i].tls_module_id = NoTls
                             /\ all_objects[i].resolved = {}

\* A failed construction does nothing more.
FailedStays == (pc = "failed" /\ run' = run) => UNCHANGED vars

\* C8: with except_missing_libs true, a popped name that is neither
\* deduplicated nor resolvable makes construction fail with an error naming
\* it; no later queued name is processed, no relocation is done and no
\* tls_module_id is assigned.
C8_MissingRaises == []NoRelocAfterMissing /\ [][MissingRaises /\ FailedStays]_vars

\* C8's case: construction failed for a missing library after it had loaded a
\* library, with names still queued behind the missing one.
C8_Witness ==
    /\ pc = "failed"
    /\ error[1] = "CLException"
    /\ _resolve_path(error[2]) = None
    /\ Len(all_objects) >= 2
    /\ unsatisfied_deps # <<>>

\* C9 as stated: with except_missing_libs false the unresolvable name is
\* dropped and loading continues; requested_objects contains the name, no
\* image provides it, and all_objects, shared_objects and the satisfied set
\* are unchanged by the attempt.
C9_MissingDropped ==
    [][(MissingHead /\ ~args.except_missing_libs) =>
           /\ pc' = "deps"
           /\ unsatisfied_deps' = Tail(unsatisfied_deps)
           /\ UNCHANGED <<all_objects, shared_objects, satisfied_deps>>
           /\ Head(unsatisfied_deps) \in requested_objects'
           /\ \A i \in Images : all_objects'[i].provides # Head(unsatisfied_deps)]_vars

\* C9 amended: requested_objects contains the dropped name when an image
\* queued it; a name that only force_load_libs supplied need not be in it.
MissingDrops ==
    (MissingHead /\ ~args.except_missing_libs) =>
        /\ pc' = "deps"
        /\ error' = error
        /\ unsatisfied_deps' = Tail(unsatisfied_deps)
        /\ UNCHANGED <<all_objects, shared_objects, satisfied_deps, requested_objects>>
        /\ Head(queued_by) # 0 => Head(unsatisfied_deps) \in requested_objects'
        /\ \A i \in Images : all_objects'[i].provides # Head(unsatisfied_deps)

\* With except_missing_libs false no construction fails for a missing library.
NeverFailsForMissing ==
    (pc = "failed" /\ ~args.except_missing_libs) => error[1] # "CLException"

C9_MissingDroppedIfDeclared == []NeverFailsForMissing /\ [][MissingDrops]_vars

\* C9's case: a finished construction that dropped the unresolvable name m,
\* declared by the main image, and loaded a library after it.
C9_Witness ==
    /\ pc = "done"
    /\ ~args.except_missing_libs
    /\ args.main_deps = <<n_m, n_a>>
    /\ _resolve_path(n_m) = None
    /\ n_m \in requested_objects
    /\ Len(all_objects) >= 2
    /\ \A i \in Images : all_objects[i].provides # n_m

\* What C10 compares of an image: its file, its base and what its imports
\* resolved to.
Outcome(objs) ==
    [i \in 1..Len(objs) |->
        [binary |-> objs[i].binary, rebase_addr |-> objs[i].rebase_addr,
         resolved |-> objs[i].resolved]]

\* C10: a second construction on the same main binary, passed the same option
\* values over the same file system, yields the same load order, the same
\* rebase_addr for every image and the same symbol resolution.
C10_SameOutcome ==
    (run = 2 /\ first.pc = "done" /\ pc \in {"done", "failed"}) =>
        /\ pc = "done"
        /\ Outcome(all_objects) = Outcome(first.all_objects)

\* C11: a library named in skip_libs is never loaded: after construction no
\* image loaded through dependency resolution has a file name or a provided
\* soname that is in skip_libs, whether it was requested by its exact name, by
\* a path or by a differently versioned name that fuzzy matching resolves to
\* it.
C11_SkippedNeverLoaded ==
    pc = "done" =>
        \A i \in Images :
            i > 1 => /\ basename(all_objects[i].binary) \notin args.skip_libs
                     /\ all_objects[i].provides \notin args.skip_libs

\* The list passed as force_load_libs to the construction under way.
PassedList == IF run = 1 THEN args.force_load_libs ELSE first.list

\* The images loaded for names the caller's list supplied.
ForcedImages == {i \in Images : i > 1 /\ all_objects[i].by = 0}

\* What skip_libs and the images loaded for the caller's names satisfy.
ForcedSatisfied ==
    args.skip_libs \cup UNION {Provided(all_objects[i]) : i \in ForcedImages}

\* Image i is in shared_objects under its soname and every import of one of
\* its exports has been resolved to an image, image i or one loaded before it.
SharedAndExporting(i) ==
    /\ \E e \in shared_objects :
           /\ e[1] = all_objects[i].provides
           /\ all_objects[e[2]].binary = all_objects[i].binary
    /\ \A j \in Images : \A sym \in all_objects[j].imports \cap all_objects[i].exports :
           \E k \in 1..i : <<sym, k>> \in all_objects[j].resolved

C13_FirstExporterWins ==
    \A i \in Images :
        all_objects[i].tls_module_id # NoTls =>
            \A sym \in all_objects[i].imports :
                <<sym, FirstExporter(all_objects, sym)>> \in all_objects[i].resolved

\* The addresses C14 looks at: from one below the lowest occupied address to
\* one above the highest.
AddrsChecked ==
    (Min({all_objects[i].rebase_addr + all_objects[i].min : i \in Images}) - 1) ..
    (Max({all_objects[i].rebase_addr + all_objects[i].max : i \in Images}) + 1)

MaxBefore(i) ==
    Max({all_objects[j].rebase_addr + all_objects[j].max : j \in 1..(i - 1)})

\* C15: a base that add_object assigns itself equals M + (G - M mod G), M
\* being the highest absolute address of the images placed before (the image
\* being added does not count), the smallest multiple of G above M; the bases
\* assigned this way increase strictly in load order.
C15_SmallestSafeBase ==
    pc \in {"deps", "reloc", "done"} =>
        \A i \in Images :
            (i > 1 /\ ~CustomBase(i)) =>
                /\ all_objects[i].rebase_addr =
                       MaxBefore(i) + (args.rebase_granularity
                                       - (MaxBefore(i) % args.rebase_granularity))
                /\ \A j \in 1..(i - 1) :
                       ~CustomBase(j) => all_objects[j].rebase_addr < all_objects[i].rebase_addr

\* The names the loader has been given so far: by the caller, or by the
\* dependency lists of the images.
NamesSeen == Range(args.force_load_libs) \cup Range(unsatisfied_deps) \cup requested_objects

\* The name the dependency loop is about to look at.
NameAtHead ==
    IF pc = "deps" /\ unsatisfied_deps # <<>> THEN {Head(unsatisfied_deps)} ELSE {}

\* The name without its maximal suffix of characters of '.0123456789'.
StripSuffix(s) ==
    LET keep == {i \in 1..Len(s) : s[i] \notin StripChars}
    IN  IF keep = {} THEN <<>> ELSE SubSeq(s, 1, Max(keep))

\* C16: the fuzzy stripping used for dedup, for the satisfied aliases and for
\* directory matching removes exactly the maximal suffix of characters of
\* '.0123456789' and leaves the rest of the name as it is, names that begin
\* with a dot or a digit included; two names that strip to the same differ in
\* that suffix only.
C16_StripsSuffixOnly ==
    /\ \A n \in NamesSeen \cup satisfied_deps : strip(n) = StripSuffix(n)
    /\ \A n \in NamesSeen : \A i \in 1..Len(AllFiles) :
           strip(n) = strip(basename(AllFiles[i].path)) =>
               StripSuffix(n) = StripSuffix(basename(AllFiles[i].path))

\* C17: every image loaded through dependency resolution has the main image's
\* architecture: whatever _resolve_path returns for the name the loop looks
\* at, on the explicit-path, the exact-name and the fuzzy branch, is a file of
\* main's architecture, and a candidate of another architecture, or of none
\* that can be determined, is passed over without an error.
C17_SameArch ==
    /\ \A i \in Images : all_objects[i].arch = all_objects[1].arch
    /\ \A n \in NameAtHead :
           _resolve_path(n) # None =>
               arch_from_binary(_resolve_path(n)) = MainFile.arch
    /\ error[1] # "ArchError"

\* C17's case: a library was loaded from the architecture's default path
\* after the search passed over a file of the same name built for another
\* architecture and a directory that holds no such file.
C17_Witness ==
    /\ pc = "done"
    /\ args.custom_ld_path = <<CustomDir>>
    /\ n_a \in NamesSeen
    /\ arch_from_binary(join(CustomDir, n_a)) \notin {MainFile.arch, "ArchError"}
    /\ arch_from_binary(join(<<".">>, n_a)) = "ArchError"
    /\ \E i \in Images : i > 1 /\ all_objects[i].binary = join(ArchLibDir, n_a)

\* The directory holds a file of exactly that name and of main's architecture.
ExactIn(libdir, n) == arch_from_binary(join(libdir, n)) = MainFile.arch

\* The directory holds an entry of main's architecture whose name equals n
\* once both are stripped.
FuzzyIn(libdir, n) ==
    \E k \in 1..Len(listdir(libdir)) :
        /\ strip(listdir(libdir)[k]) = strip(n)
        /\ arch_from_binary(join(libdir, listdir(libdir)[k])) = MainFile.arch

\* The directory holds a match for n.
MatchIn(libdir, n) ==
    ExactIn(libdir, n) \/ (args.ignore_import_version_numbers /\ FuzzyIn(libdir, n))

\* The order of search C18 states.
ClaimedDirs ==
    args.custom_ld_path \o << <<".">> >> \o << dirname(realpath(MainPath)) >>
        \o library_search_path

\* C18: for the name the loop looks at, when it has no path separator,
\* _resolve_path returns a file of the first directory, in the order
\* custom_ld_path, '.', main's directory, the architecture's default paths,
\* that holds a compatible match; within that directory the exact name goes
\* before a fuzzy candidate, and a fuzzy candidate is taken only when
\* ignore_import_version_numbers is true.  For a name with a path separator
\* the result is that path if it is compatible and no path otherwise.
C18_SearchOrder ==
    \A n \in NameAtHead :
        IF HasSlash(n)
        THEN _resolve_path(n) = (IF arch_from_binary(n) = MainFile.arch THEN n ELSE None)
        ELSE LET hits == {k \in 1..Len(ClaimedDirs) : MatchIn(ClaimedDirs[k], n)}
                 libdir == ClaimedDirs[Min(hits)]
             IN  IF hits = {} THEN _resolve_path(n) = None
                 ELSE /\ _resolve_path(n) # None
                      /\ dirname(_resolve_path(n)) = realpath(libdir)
                      /\ ExactIn(libdir, n) => _resolve_path(n) = realpath(join(libdir, n))
                      /\ ~ExactIn(libdir, n) =>
                             /\ args.ignore_import_version_numbers
                             /\ strip(basename(_resolve_path(n))) = strip(n)

\* C18's case: a library was loaded from custom_ld_path for a name that has a
\* match in the architecture's default path too, and a name that has an exact
\* match in a later directory resolves to a fuzzy match of an earlier one.
C18_Witness ==
    /\ pc = "done"
    /\ \E i \in Images : \E n \in NamesSeen :
           /\ i > 1
           /\ all_objects[i].binary = _resolve_path(n)
           /\ dirname(all_objects[i].binary) = CustomDir
           /\ MatchIn(ArchLibDir, n)
    /\ \E n \in NamesSeen :
           /\ ~ExactIn(CustomDir, n)
           /\ ExactIn(ArchLibDir, n)
           /\ dirname(_resolve_path(n)) = CustomDir

\* Image i has been given a base address: it has a backer at its rebase_addr.
Placed(i) ==
    \E k \in 1..Len(memory) :
        memory[k].obj = i /\ memory[k].start = all_objects[i].rebase_addr

\* C19: relocation starts only when the dependency loop has reached its
\* fixpoint: no relocation is applied and no tls_module_id is assigned while
\* the unsatisfied queue holds a name, and when construction returns
\* successfully the queue is empty and every image of all_objects has a base
\* address and a tls_module_id.
C19_RelocAfterFixpoint ==
    /\ unsatisfied_deps # <<>> =>
           /\ pc \notin {"reloc", "done"}
           /\ \A i \in Images : /\ all_objects[i].tls_module_id = NoTls
                                /\ all_objects[i].resolved = {}
    /\ pc = "done" =>
           /\ unsatisfied_deps = <<>>
           /\ \A i \in Images : /\ Placed(i)
                                /\ all_objects[i].tls_module_id # NoTls

\* C19's case: a finished construction that loaded a library found through
\* the dependency list of another library.
C19_Witness ==
    /\ pc = "done"
    /\ \E i \in Images : all_objects[i].by >= 2
    /\ \A i \in Images : Placed(i) /\ all_objects[i].tls_module_id = i - 1

\* C20: in every reachable state requested_objects is the union of the
\* declared dependencies of the images of all_objects, whatever auto_load_libs
\* is; with auto_load_libs false no declared dependency is ever queued, so
\* all_objects is the main image and libraries that force_load_libs names.
C20_RequestedIsDeclared ==
    /\ requested_objects = Declared
    /\ ~args.auto_load_libs =>
           /\ \A k \in 1..Len(queued_by) : queued_by[k] = 0
           /\ \A i \in Images :
                  i > 1 => /\ all_objects[i].by = 0
                           /\ \E n \in Range(PassedList) :
                                  all_objects[i].binary = _resolve_path(n)

\* C20's case: a finished construction with auto_load_libs false whose main
\* image declares a library that can be found and was not loaded, next to a
\* library that force_load_libs named.
C20_Witness ==
    /\ pc = "done"
    /\ ~args.auto_load_libs
    /\ Len(all_objects) >= 2
    /\ \E d \in requested_objects :
           /\ _resolve_path(d) # None
           /\ ~Satisfied(d)
           /\ \A i \in Images : all_objects[i].binary # _resolve_path(d)

\* C21: constructing Ld leaves the caller's option values as they were: when
\* a construction has ended, successfully or not, the list the caller passed
\* as force_load_libs holds the names it held when it was passed, in the same
\* order.
C21_CallerListUnchanged ==
    pc \in {"done", "failed"} => force_load_libs = PassedList

====
